---- MODULE Spec2Model ----
(***************************************************************************)
(* Token manager and authenticated accessor of the Spotify MCP server.     *)
(* The repository carries three copies of class SpotifyAPI                 *)
(* (src/tools/spotify_api.py, src/server.py, src/main.py); `variant' says  *)
(* which copy the running process has loaded.  Every tool invocation is a  *)
(* cooperative task; a task is suspended only while an HTTP request is     *)
(* being sent or is in flight.                                             *)
(***************************************************************************)
EXTENDS Integers, Sequences, FiniteSets, TLC

\* ---------------------------------------------------------------- bounds
NumTasks == 2
MaxCalls == 2
\* records in one group of audio features
MaxGroup == 2
\* characters of a presented bearer token
MaxTokenLen == 3

\* ------------------------------------------------------ program constants
INTERNAL_ERROR == -32603

Tasks    == 1..NumTasks
Variants == {"tools", "server", "main"}
None     == "<None>"
Ops      == {"ensure_token", "get", "post"}
\* calls of the accessor made by the tools
AccessorCalls == {<<"get", "me/top/tracks">>, <<"post", "recommendations">>}

\* readings of the clock after the start at time 1: a token of 3600 s
\* stored at time 1 is reusable up to time 3540 and no longer at 3541
Times == {3540, 3541}

\* ------------------------------------------------------------ environment
\* what os.getenv gives for SPOTIFY_CLIENT_ID, SPOTIFY_CLIENT_SECRET and
\* SPOTIFY_REFRESH_TOKEN: all set, no refresh credential, no client id, no
\* client secret
Environments ==
  { <<"client-id", "client-secret", "refresh-token">>,
    <<"client-id", "client-secret", None>>,
    <<None, "client-secret", "refresh-token">>,
    <<"client-id", None, None>> }

\* answers of the token endpoint: a status and a response text; a 200
\* carries the JSON object of the OAuth contract (expires_in is optional)
ExpiresInValues == {60}
TokenErrorTexts == {<<"error", "invalid_client">>, <<"error", "invalid_grant">>}
TokenAnswers(tok) ==
       {[status |-> 200, json |-> [access_token |-> tok]]}
  \cup {[status |-> 200, json |-> [access_token |-> tok, expires_in |-> e]] :
          e \in ExpiresInValues}
  \cup {[status |-> 400, text |-> b] : b \in TokenErrorTexts}

\* answers of the resource API
ResourceAnswers ==
  { [status |-> 200, text |-> <<"items">>],
    [status |-> 399, text |-> <<"items">>],
    [status |-> 401, text |-> <<"error", "The access token expired">>] }

\* httpx.RequestError: the request got no HTTP answer
RequestError == [status |-> 0, text |-> <<"connect failed">>]

\* bearer tokens are sequences of characters over a small alphabet;
\* DefaultToken stands for the default "shadow-spotify-token" of
\* os.getenv("MCP_BEARER_TOKEN", ...)
Alphabet     == {"t", "T", "k"}
DefaultToken == <<"t", "k">>
BearerTokens == {DefaultToken, <<"T", "k", "t">>}

VARIABLES
  variant,                \* which copy of SpotifyAPI is loaded
  SPOTIFY_CLIENT_ID, SPOTIFY_CLIENT_SECRET, SPOTIFY_REFRESH_TOKEN,
  access_token,           \* SpotifyAPI._access_token
  expires_at,             \* SpotifyAPI._expires_at
  now,                    \* time.time()
  calls, issued,          \* invocations started, tokens issued
  pc,                     \* per task: where the coroutine is suspended
  op, path,               \* per task: what was invoked
  token,                  \* per task: local `token' of get/post
  request,                \* per task: HTTP request in flight
  response,               \* per task: the answer `r' that made the call fail
  result,                 \* per task: value returned or exception raised
  token_posts,            \* per task: POSTs to TOKEN_URL in this invocation
  api_requests,           \* per task: requests to API_BASE in this invocation
  decision,               \* per task: "cache" or "refresh", taken at line 30
  last_stored,            \* the 200 answer of the token endpoint handled
                          \* last, the time, and whether the cache held a
                          \* reusable token then
  TOKEN,                  \* MCP_BEARER_TOKEN, the token of the auth provider
  tool_call,              \* the tool call handled last: its name, its
                          \* inputs and what it gave to the caller
  app_state,              \* server.py main(): "init", "auth", "running" or
                          \* "exited"; "running" where no main() precedes
  copies, side,           \* the three copies of the token manager run side
                          \* by side: their caches, and what the last call
                          \* gave in each
  recording,              \* whether the history below is kept
  last_refresh,           \* history: how the last answered token request
                          \* ended: "none", "failed" or "stored"
  seen                    \* history, per task: last_refresh and last_stored
                          \* when the invocation started, the token response
                          \* it stored, what its ensure_token returned, and
                          \* the cached token when its request was sent

config == <<variant, SPOTIFY_CLIENT_ID, SPOTIFY_CLIENT_SECRET, SPOTIFY_REFRESH_TOKEN,
           TOKEN>>
cache  == <<access_token, expires_at>>
env    == <<calls, issued>>
locals == <<pc, op, path, token, request, response, result,
            token_posts, api_requests, decision>>
other  == <<app_state, copies, side, recording>>
hist   == <<last_refresh, seen>>
vars   == <<config, cache, now, env, locals, last_stored, tool_call, other, hist>>

\* ------------------------------------------------------------- helpers
\* Python truthiness of an environment value
Truthy(v) == v # None /\ v # ""

\* dict.get(key, default)
Get(d, key, default) == IF key \in DOMAIN d THEN d[key] ELSE default

\* `needle in text'
Contains(text, needle) == \E i \in DOMAIN text : text[i] = needle

\* pieces of an f-string
Lit(s)    == [lit |-> s]
Path(p)   == [path |-> p]
Status(s) == [status |-> s]
Body(b)   == [body |-> b]

McpError(message) ==
  [kind |-> "raise", exc |-> "McpError", code |-> INTERNAL_ERROR, message |-> message]
Uncaught(exc, message) ==
  [kind |-> "raise", exc |-> exc, code |-> 0, message |-> message]
Returned(value) == [kind |-> "return", value |-> value]
NoResult == [kind |-> "none"]
NoMessage == [status |-> -1]

\* base64.b64encode(f"{id}:{secret}".encode()).decode()
b64encode(id, secret) == [b64 |-> <<id, ":", secret>>]


\* the string Spotify issues with its i-th successful token answer
IssuedToken(i) == "BQ" \o ToString(i)

\* ------------------------------------------------------------------ Init
\* no tool has been called yet
NoCall == [tool |-> None]
\* the copies are not run side by side
NoCopies == [v \in {} |-> 0]
\* the history of an idle task
NotSeen == [refresh |-> "none", stored |-> NoMessage, fetched |-> NoMessage,
            returned |-> None, cache_at_send |-> None]

\* the module is loaded: the environment is read, the class attributes have
\* their initial values, no coroutine runs
ModuleLoad ==
  /\ variant \in Variants
  /\ \E e \in Environments :
       /\ SPOTIFY_CLIENT_ID = e[1]
       /\ SPOTIFY_CLIENT_SECRET = e[2]
       /\ SPOTIFY_REFRESH_TOKEN = e[3]
  /\ access_token = ""
  /\ expires_at = 0
  /\ now = 1
  /\ calls = 0 /\ issued = 0
  /\ pc = [t \in Tasks |-> "idle"]
  /\ op = [t \in Tasks |-> None]
  /\ path = [t \in Tasks |-> None]
  /\ token = [t \in Tasks |-> None]
  /\ request = [t \in Tasks |-> NoMessage]
  /\ response = [t \in Tasks |-> NoMessage]
  /\ result = [t \in Tasks |-> NoResult]
  /\ token_posts = [t \in Tasks |-> 0]
  /\ api_requests = [t \in Tasks |-> 0]
  /\ decision = [t \in Tasks |-> None]
  /\ last_stored = NoMessage
  /\ tool_call = NoCall
  /\ copies = NoCopies
  /\ side = NoCall
  /\ last_refresh = "none"
  /\ seen = [t \in Tasks |-> NotSeen]

\* the process starts with MCP_BEARER_TOKEN unset
Init ==
  /\ ModuleLoad
  /\ app_state = "running"
  /\ TOKEN = DefaultToken
  /\ recording = FALSE

\* ------------------------------------------------- ensure_token, the test
\* the test with a margin of 120 s
TokenReusable_WideMargin == now < expires_at - 120
\* the test with `<=' in place of `<'
TokenReusable_Inclusive == now <= expires_at - 60
\* the test without the safety margin
TokenReusable_NoMargin == now < expires_at
\* a safety margin of half a minute
TokenReusable_ShortMargin == now < expires_at - 30
\* `time.time() < cls._expires_at - 60'
TokenReusable == now < expires_at - 60

\* `if not SPOTIFY_CLIENT_ID or not SPOTIFY_CLIENT_SECRET' ; only the copy
\* in tools/spotify_api.py has the check
tools_CredentialsMissing ==
  ~Truthy(SPOTIFY_CLIENT_ID) \/ ~Truthy(SPOTIFY_CLIENT_SECRET)
server_CredentialsMissing == FALSE
main_CredentialsMissing == FALSE
CredentialsMissing ==
  CASE variant = "tools"  -> tools_CredentialsMissing
    [] variant = "server" -> server_CredentialsMissing
    [] variant = "main"   -> main_CredentialsMissing

MissingCredentialsMessage ==
  <<Lit("Missing Spotify API credentials. Set SPOTIFY_CLIENT_ID and SPOTIFY_CLIENT_SECRET in .env file.")>>

\* ------------------------------------------- ensure_token, the token POST
BasicAuth == <<"Basic", b64encode(SPOTIFY_CLIENT_ID, SPOTIFY_CLIENT_SECRET)>>

tools_TokenRequest ==
  IF Truthy(SPOTIFY_REFRESH_TOKEN)
  THEN [url |-> "TOKEN_URL", method |-> "POST",
        data |-> [grant_type |-> "refresh_token",
                  refresh_token |-> SPOTIFY_REFRESH_TOKEN],
        headers |-> [Authorization |-> BasicAuth]]
  ELSE [url |-> "TOKEN_URL", method |-> "POST",
        data |-> [grant_type |-> "client_credentials"],
        headers |-> [Authorization |-> BasicAuth,
                     Content_Type |-> "application/x-www-form-urlencoded"]]

server_TokenRequest ==
  IF Truthy(SPOTIFY_REFRESH_TOKEN)
  THEN [url |-> "TOKEN_URL", method |-> "POST",
        data |-> [grant_type |-> "refresh_token",
                  refresh_token |-> SPOTIFY_REFRESH_TOKEN],
        headers |-> [Authorization |-> BasicAuth]]
  ELSE [url |-> "TOKEN_URL", method |-> "POST",
        data |-> [grant_type |-> "client_credentials",
                  client_id |-> SPOTIFY_CLIENT_ID,
                  client_secret |-> SPOTIFY_CLIENT_SECRET],
        headers |-> << >>]

main_TokenRequest ==
  [url |-> "TOKEN_URL", method |-> "POST",
   data |-> [grant_type |-> "refresh_token",
             refresh_token |-> SPOTIFY_REFRESH_TOKEN,
             client_id |-> SPOTIFY_CLIENT_ID,
             client_secret |-> SPOTIFY_CLIENT_SECRET],
   headers |-> << >>]

TokenRequest ==
  CASE variant = "tools"  -> tools_TokenRequest
    [] variant = "server" -> server_TokenRequest
    [] variant = "main"   -> main_TokenRequest

\* ---------------------------------------- ensure_token, the failure paths
\* message of the error raised for `r.status_code != 200'
tools_AuthFailedMessage(r) ==
  IF r.status = 400 /\ Contains(r.text, "invalid_client")
  THEN <<Lit("Invalid Spotify client credentials. Please check that: ...")>>
  ELSE <<Lit("Spotify auth failed: "), Lit("HTTP "), Status(r.status),
         Lit(": "), Body(r.text)>>
server_AuthFailedMessage(r) ==
  <<Lit("Spotify auth failed: "), Lit("HTTP "), Status(r.status),
    Lit(": "), Body(r.text)>>
main_AuthFailedMessage(r) == <<Lit("Spotify auth failed")>>
AuthFailedMessage(r) ==
  CASE variant = "tools"  -> tools_AuthFailedMessage(r)
    [] variant = "server" -> server_AuthFailedMessage(r)
    [] variant = "main"   -> main_AuthFailedMessage(r)

\* `except httpx.RequestError as e' ; the copy in main.py has no handler
ConnectionError(prefix, r) ==
  IF variant = "main"
  THEN Uncaught("httpx.RequestError", <<Body(r.text)>>)
  ELSE McpError(<<Lit(prefix), Body(r.text)>>)

\* what ensure_token raises for an answer that is not a 200
TokenFailure(r) ==
  IF r = RequestError
  THEN ConnectionError("Connection error: ", r)
  ELSE McpError(AuthFailedMessage(r))

\* ---------------------------------------- ensure_token, the success path
\* the expiry with a default of 60 s
NewExpiry_ShortDefault(resp) == now + Get(resp, "expires_in", 60)
\* `time.time() + resp.get("expires_in", 3600)'
NewExpiry(resp) == now + Get(resp, "expires_in", 3600)

\* a store that keeps the token of the first answer
StoreToken_FirstWins(resp) ==
  IF access_token = ""
  THEN /\ access_token' = resp["access_token"]
       /\ expires_at' = NewExpiry(resp)
  ELSE UNCHANGED cache
\* a store that never shortens the cached expiry
StoreToken_KeepLaterExpiry(resp) ==
  /\ access_token' = resp["access_token"]
  /\ expires_at' = IF NewExpiry(resp) > expires_at
                   THEN NewExpiry(resp) ELSE expires_at
\* `cls._access_token = resp["access_token"]; cls._expires_at = ...'
StoreToken(resp) ==
  /\ access_token' = resp["access_token"]
  /\ expires_at' = NewExpiry(resp)

\* ensure_token hands `tok' to its caller: the tool that called it directly
\* is finished, get/post go on to build their headers
EnsureTokenReturn(t, o, tok) ==
  /\ token' = [token EXCEPT ![t] = tok]
  /\ IF o = "ensure_token"
     THEN /\ pc' = [pc EXCEPT ![t] = "done"]
          /\ result' = [result EXCEPT ![t] = Returned(tok)]
     ELSE /\ pc' = [pc EXCEPT ![t] = "send"]
          /\ result' = result

\* a failure path that posts the token request once more
RaiseTokenFailure_Retry(t, r) ==
  IF token_posts[t] < 2
  THEN /\ pc' = [pc EXCEPT ![t] = "token_wait"]
       /\ token_posts' = [token_posts EXCEPT ![t] = @ + 1]
       /\ UNCHANGED <<result, request>>
  ELSE /\ pc' = [pc EXCEPT ![t] = "done"]
       /\ result' = [result EXCEPT ![t] = TokenFailure(r)]
       /\ request' = [request EXCEPT ![t] = NoMessage]
       /\ token_posts' = token_posts
\* ensure_token raises: the exception passes through get/post to the caller
RaiseTokenFailure(t, r) ==
  /\ pc' = [pc EXCEPT ![t] = "done"]
  /\ result' = [result EXCEPT ![t] = TokenFailure(r)]
  /\ request' = [request EXCEPT ![t] = NoMessage]
  /\ token_posts' = token_posts

\* --------------------------------------------------------- get and post
Method(o) == IF o = "get" THEN "GET" ELSE "POST"

\* a header built from the class attribute when the request is sent
Bearer_FromCache(t) == access_token
\* `headers = {"Authorization": f"Bearer {token}"}'
Bearer(t) == token[t]

\* headers that name the cached token current when the request is built
ApiRequest_CachedBearer(t) ==
  IF op[t] = "get"
  THEN [url |-> <<"API_BASE", path[t]>>, method |-> "GET",
        headers |-> [Authorization |-> <<"Bearer", access_token>>]]
  ELSE [url |-> <<"API_BASE", path[t]>>, method |-> "POST",
        headers |-> [Authorization |-> <<"Bearer", access_token>>,
                     Content_Type |-> "application/json"]]
ApiRequest(t) ==
  IF op[t] = "get"
  THEN [url |-> <<"API_BASE", path[t]>>, method |-> "GET",
        headers |-> [Authorization |-> <<"Bearer", Bearer(t)>>]]
  ELSE [url |-> <<"API_BASE", path[t]>>, method |-> "POST",
        headers |-> [Authorization |-> <<"Bearer", Bearer(t)>>,
                     Content_Type |-> "application/json"]]

\* message of the error raised for `r.status_code >= 400'
tools_ApiFailedMessage(o, p, r) ==
  <<Lit("Spotify "), Lit(Method(o)), Lit(" "), Path(p), Lit(" failed: "),
    Lit("HTTP "), Status(r.status), Lit(": "), Body(r.text)>>
server_ApiFailedMessage(o, p, r) ==
  <<Lit("Spotify "), Lit(Method(o)), Lit(" "), Path(p), Lit(" failed: "),
    Lit("HTTP "), Status(r.status), Lit(": "), Body(r.text)>>
main_ApiFailedMessage(o, p, r) ==
  <<Lit("Spotify "), Lit(Method(o)), Lit(" "), Path(p), Lit(" failed")>>
ApiFailedMessage(o, p, r) ==
  CASE variant = "tools"  -> tools_ApiFailedMessage(o, p, r)
    [] variant = "server" -> server_ApiFailedMessage(o, p, r)
    [] variant = "main"   -> main_ApiFailedMessage(o, p, r)

\* `r.json()' raises json.JSONDecodeError for a body that is not JSON
NotJson == <<"<html>">>
IsJson(text) == text # NotJson
\* what get/post hand to the tool for the answer r
ApiOutcome(o, p, r) ==
  IF r = RequestError THEN ConnectionError("Request error: ", r)
  ELSE IF r.status >= 400 THEN McpError(ApiFailedMessage(o, p, r))
  ELSE IF ~IsJson(r.text)
       THEN Uncaught("json.JSONDecodeError", <<Body(r.text)>>)
  ELSE Returned([json |-> r.text])

\* ---------------------------------------------------------------- actions
\* The history of the step just taken, kept while `recording'.
Observe ==
  IF recording
  THEN /\ last_refresh' =
            IF \E t \in Tasks : pc[t] = "token_wait" /\ pc'[t] # "token_wait"
            THEN (IF issued' # issued THEN "stored" ELSE "failed")
            ELSE last_refresh
       /\ seen' = [t \in Tasks |->
            IF pc'[t] = "idle" THEN NotSeen
            ELSE IF pc[t] = "idle"
                 THEN [NotSeen EXCEPT !.refresh = last_refresh,
                                      !.stored = last_stored,
                                      !.returned = token'[t]]
            ELSE IF pc[t] = "token_wait" /\ pc'[t] # "token_wait" /\ issued' # issued
                 THEN [seen[t] EXCEPT !.fetched = last_stored',
                                      !.returned = token'[t]]
            ELSE IF pc[t] = "send" /\ pc'[t] = "api_wait"
                 THEN [seen[t] EXCEPT !.cache_at_send = access_token]
            ELSE seen[t]]
  ELSE UNCHANGED hist

\* A return or an exception travels up the await chain to the tool without
\* a suspension: nothing else runs before the tool has its result.
NoResultPending == \A u \in Tasks : pc[u] # "done"

\* ensure_token, get or post is called in the lowest free task; the
\* coroutine runs to its first suspension point (ensure_token lines 30-75).
StartCall(t, o, p) ==
  /\ NoResultPending
  /\ pc[t] = "idle"
  /\ \A u \in Tasks : u < t => pc[u] # "idle"
  /\ calls < MaxCalls
  /\ calls' = calls + 1
  /\ op' = [op EXCEPT ![t] = o]
  /\ path' = [path EXCEPT ![t] = p]
  /\ api_requests' = [api_requests EXCEPT ![t] = 0]
  /\ response' = [response EXCEPT ![t] = NoMessage]
  /\ IF TokenReusable
     THEN /\ decision' = [decision EXCEPT ![t] = "cache"]
          /\ token_posts' = [token_posts EXCEPT ![t] = 0]
          /\ request' = [request EXCEPT ![t] = NoMessage]
          /\ EnsureTokenReturn(t, o, access_token)
     ELSE /\ decision' = [decision EXCEPT ![t] = "refresh"]
          /\ IF CredentialsMissing
             THEN /\ token_posts' = [token_posts EXCEPT ![t] = 0]
                  /\ request' = [request EXCEPT ![t] = NoMessage]
                  /\ pc' = [pc EXCEPT ![t] = "done"]
                  /\ result' = [result EXCEPT ![t] =
                                  McpError(MissingCredentialsMessage)]
                  /\ token' = token
             ELSE /\ token_posts' = [token_posts EXCEPT ![t] = 1]
                  /\ request' = [request EXCEPT ![t] = TokenRequest]
                  /\ pc' = [pc EXCEPT ![t] = "token_wait"]
                  /\ UNCHANGED <<result, token>>
  /\ UNCHANGED <<config, tool_call, copies, side, recording, cache, now, issued,
                 last_stored>>
  /\ Observe

\* A tool of the serving process calls ensure_token, get or post.
Invoke(t, o, p) ==
  /\ app_state = "running"
  /\ StartCall(t, o, p)
  /\ UNCHANGED app_state

\* a success path that also keeps the issued string as the refresh credential
TokenAnswer_RotateRefresh(t, r) ==
  /\ NoResultPending
  /\ pc[t] = "token_wait"
  /\ IF r.status = 200
     THEN /\ issued' = issued + 1
          /\ StoreToken(r.json)
          /\ SPOTIFY_REFRESH_TOKEN' = r.json.access_token
          /\ last_stored' = [json |-> r.json, at |-> now,
                             raced |-> now < expires_at - 60]
          /\ response' = response
          /\ EnsureTokenReturn(t, op[t], access_token')
          /\ request' = [request EXCEPT ![t] = NoMessage]
          /\ token_posts' = token_posts
     ELSE /\ RaiseTokenFailure(t, r)
          /\ response' = [response EXCEPT ![t] = r]
          /\ UNCHANGED <<cache, issued, last_stored, token, SPOTIFY_REFRESH_TOKEN>>
  /\ UNCHANGED <<variant, SPOTIFY_CLIENT_ID, SPOTIFY_CLIENT_SECRET, TOKEN,
                 tool_call, other, now, calls, op, path, api_requests, decision>>
  /\ Observe
\* an answer that remembers the failure for the lifetime of a token
TokenAnswer_CacheFailure(t, r) ==
  /\ NoResultPending
  /\ pc[t] = "token_wait"
  /\ IF r.status = 200
     THEN /\ issued' = issued + 1
          /\ StoreToken(r.json)
          /\ last_stored' = [json |-> r.json, at |-> now,
                             raced |-> now < expires_at - 60]
          /\ response' = response
          /\ EnsureTokenReturn(t, op[t], access_token')
          /\ request' = [request EXCEPT ![t] = NoMessage]
          /\ token_posts' = token_posts
     ELSE /\ RaiseTokenFailure(t, r)
          /\ response' = [response EXCEPT ![t] = r]
          /\ expires_at' = now + 3600
          /\ UNCHANGED <<access_token, issued, last_stored, token>>
  /\ UNCHANGED <<config, tool_call, other, now, calls, op, path, api_requests, decision>>
  /\ Observe
\* `r = await client.post(cls.TOKEN_URL, ...)' resumes with the answer r
\* (ensure_token lines 75-102)
TokenAnswer(t, r) ==
  /\ NoResultPending
  /\ pc[t] = "token_wait"
  /\ IF r.status = 200
     THEN /\ issued' = issued + 1
          /\ StoreToken(r.json)
          /\ last_stored' = [json |-> r.json, at |-> now,
                             raced |-> now < expires_at - 60]
          /\ response' = response
          /\ EnsureTokenReturn(t, op[t], access_token')
          /\ request' = [request EXCEPT ![t] = NoMessage]
          /\ token_posts' = token_posts
     ELSE /\ RaiseTokenFailure(t, r)
          /\ response' = [response EXCEPT ![t] = r]
          /\ UNCHANGED <<cache, issued, last_stored, token>>
  /\ UNCHANGED <<config, tool_call, other, now, calls, op, path, api_requests, decision>>
  /\ Observe

\* get/post pass the request to httpx (get lines 107-117, post 136-145)
Send(t) ==
  /\ NoResultPending
  /\ pc[t] = "send"
  /\ request' = [request EXCEPT ![t] = ApiRequest(t)]
  /\ api_requests' = [api_requests EXCEPT ![t] = @ + 1]
  /\ pc' = [pc EXCEPT ![t] = "api_wait"]
  /\ UNCHANGED <<config, tool_call, other, cache, now, env, op, path, token, response, result,
                 token_posts, decision, last_stored>>
  /\ Observe

\* an accessor that sends the request again after a connection failure
ApiAnswer_RetryOnError(t, r) ==
  /\ NoResultPending
  /\ pc[t] = "api_wait"
  /\ IF r = RequestError
     THEN /\ pc' = [pc EXCEPT ![t] = "send"]
          /\ api_requests' = [api_requests EXCEPT ![t] = 0]
          /\ UNCHANGED <<response, result>>
     ELSE /\ response' = [response EXCEPT ![t] = r]
          /\ result' = [result EXCEPT ![t] = ApiOutcome(op[t], path[t], r)]
          /\ pc' = [pc EXCEPT ![t] = "done"]
          /\ api_requests' = api_requests
  /\ UNCHANGED <<config, tool_call, other, cache, now, env, op, path, token, request,
                 token_posts, decision, last_stored>>
  /\ Observe
\* an accessor that drops the cached token when the API answers 401
ApiAnswer_Invalidate(t, r) ==
  /\ NoResultPending
  /\ pc[t] = "api_wait"
  /\ response' = [response EXCEPT ![t] = r]
  /\ result' = [result EXCEPT ![t] = ApiOutcome(op[t], path[t], r)]
  /\ pc' = [pc EXCEPT ![t] = "done"]
  /\ IF r.status = 401
     THEN access_token' = "" /\ expires_at' = 0
     ELSE UNCHANGED cache
  /\ UNCHANGED <<config, tool_call, other, now, env, op, path, token, request,
                 token_posts, api_requests, decision, last_stored>>
  /\ Observe
\* `r = await client.get(url, ...)' resumes with the answer r
ApiAnswer(t, r) ==
  /\ NoResultPending
  /\ pc[t] = "api_wait"
  /\ response' = [response EXCEPT ![t] = r]
  /\ result' = [result EXCEPT ![t] = ApiOutcome(op[t], path[t], r)]
  /\ pc' = [pc EXCEPT ![t] = "done"]
  /\ UNCHANGED <<config, tool_call, other, cache, now, env, op, path, token, request,
                 token_posts, api_requests, decision, last_stored>>
  /\ Observe

\* the caller has its value or exception; the task is free for the next call
EndCall(t) ==
  /\ pc[t] = "done"
  /\ pc' = [pc EXCEPT ![t] = "idle"]
  /\ op' = [op EXCEPT ![t] = None]
  /\ path' = [path EXCEPT ![t] = None]
  /\ token' = [token EXCEPT ![t] = None]
  /\ request' = [request EXCEPT ![t] = NoMessage]
  /\ response' = [response EXCEPT ![t] = NoMessage]
  /\ result' = [result EXCEPT ![t] = NoResult]
  /\ token_posts' = [token_posts EXCEPT ![t] = 0]
  /\ api_requests' = [api_requests EXCEPT ![t] = 0]
  /\ decision' = [decision EXCEPT ![t] = None]
  /\ UNCHANGED <<config, tool_call, copies, side, recording, cache, now, env,
                 last_stored>>
  /\ Observe

\* the tool of the serving process has its value or exception
Finish(t) ==
  /\ app_state = "running"
  /\ EndCall(t)
  /\ UNCHANGED app_state

\* the wall clock advances to a later reading
Tick(d) ==
  /\ NoResultPending
  /\ d > now
  /\ now' = d
  /\ UNCHANGED <<config, tool_call, other, cache, calls, issued, locals, last_stored>>
  /\ Observe

Next ==
  \/ \E t \in Tasks : Invoke(t, "ensure_token", None)
  \/ \E t \in Tasks, c \in AccessorCalls : Invoke(t, c[1], c[2])
  \/ \E t \in Tasks :
       \E r \in TokenAnswers(IssuedToken(issued + 1)) \cup {RequestError} :
         TokenAnswer(t, r)
  \/ \E t \in Tasks : Send(t)
  \/ \E t \in Tasks : \E r \in ResourceAnswers \cup {RequestError} : ApiAnswer(t, r)
  \/ \E t \in Tasks : Finish(t)
  \/ \E d \in Times : Tick(d)

Spec == Init /\ [][Next]_vars

\* The event loop resumes every coroutine that can run, and every HTTP
\* request is answered or fails in the end.
Fairness ==
  \A t \in Tasks :
    /\ WF_vars(\E r \in TokenAnswers(IssuedToken(issued + 1)) \cup {RequestError} :
                 TokenAnswer(t, r))
    /\ WF_vars(Send(t))
    /\ WF_vars(\E r \in ResourceAnswers \cup {RequestError} : ApiAnswer(t, r))
    /\ WF_vars(Finish(t))

LiveSpec == Init /\ [][Next]_vars /\ Fairness

\* ------------------------------- the three copies of ensure_token, apart
\* Each copy as a function: the cache c of that copy, the clock and the
\* answer r its token request gets give the decision taken, what the caller
\* gets, and the cache afterwards.
MaxRounds == 3
NoCache == [access_token |-> "", expires_at |-> 0]
Stored(clock, resp) ==
  [access_token |-> resp["access_token"],
   expires_at |-> clock + Get(resp, "expires_in", 3600)]

tools_ensure_token(c, clock, r) ==
  IF clock < c.expires_at - 60
  THEN [decision |-> "cache", outcome |-> Returned(c.access_token), cache |-> c]
  ELSE IF ~Truthy(SPOTIFY_CLIENT_ID) \/ ~Truthy(SPOTIFY_CLIENT_SECRET)
  THEN [decision |-> "refresh", outcome |-> McpError(MissingCredentialsMessage),
        cache |-> c]
  ELSE IF r = RequestError
  THEN [decision |-> "refresh",
        outcome |-> McpError(<<Lit("Connection error: "), Body(r.text)>>),
        cache |-> c]
  ELSE IF r.status # 200
  THEN [decision |-> "refresh", outcome |-> McpError(tools_AuthFailedMessage(r)),
        cache |-> c]
  ELSE [decision |-> "refresh", outcome |-> Returned(Stored(clock, r.json).access_token),
        cache |-> Stored(clock, r.json)]

server_ensure_token(c, clock, r) ==
  IF clock < c.expires_at - 60
  THEN [decision |-> "cache", outcome |-> Returned(c.access_token), cache |-> c]
  ELSE IF r = RequestError
  THEN [decision |-> "refresh",
        outcome |-> McpError(<<Lit("Connection error: "), Body(r.text)>>),
        cache |-> c]
  ELSE IF r.status # 200
  THEN [decision |-> "refresh", outcome |-> McpError(server_AuthFailedMessage(r)),
        cache |-> c]
  ELSE [decision |-> "refresh", outcome |-> Returned(Stored(clock, r.json).access_token),
        cache |-> Stored(clock, r.json)]

\* a copy that reuses the token up to its expiry
main_ensure_token_NoMargin(c, clock, r) ==
  IF clock < c.expires_at
  THEN [decision |-> "cache", outcome |-> Returned(c.access_token), cache |-> c]
  ELSE IF r = RequestError
  THEN [decision |-> "refresh",
        outcome |-> Uncaught("httpx.RequestError", <<Body(r.text)>>), cache |-> c]
  ELSE IF r.status # 200
  THEN [decision |-> "refresh", outcome |-> McpError(main_AuthFailedMessage(r)),
        cache |-> c]
  ELSE [decision |-> "refresh", outcome |-> Returned(Stored(clock, r.json).access_token),
        cache |-> Stored(clock, r.json)]
\* main.py: no check of the credentials and no handler of httpx.RequestError
main_ensure_token(c, clock, r) ==
  IF clock < c.expires_at - 60
  THEN [decision |-> "cache", outcome |-> Returned(c.access_token), cache |-> c]
  ELSE IF r = RequestError
  THEN [decision |-> "refresh",
        outcome |-> Uncaught("httpx.RequestError", <<Body(r.text)>>), cache |-> c]
  ELSE IF r.status # 200
  THEN [decision |-> "refresh", outcome |-> McpError(main_AuthFailedMessage(r)),
        cache |-> c]
  ELSE [decision |-> "refresh", outcome |-> Returned(Stored(clock, r.json).access_token),
        cache |-> Stored(clock, r.json)]

copy_ensure_token(v, c, clock, r) ==
  CASE v = "tools"  -> tools_ensure_token(c, clock, r)
    [] v = "server" -> server_ensure_token(c, clock, r)
    [] v = "main"   -> main_ensure_token(c, clock, r)

\* the three modules are loaded: each class has its own empty cache
LoadCopies ==
  /\ copies = NoCopies
  /\ copies' = [v \in Variants |-> NoCache]
  /\ UNCHANGED <<config, cache, now, env, locals, last_stored, tool_call,
                 app_state, side, recording, hist>>

\* ensure_token is called in the three copies at once; the token requests
\* that are made all get the answer r
Together_ensure_token(r) ==
  /\ copies # NoCopies
  /\ calls < MaxRounds
  /\ calls' = calls + 1
  /\ issued' = IF r # RequestError /\ r.status = 200 THEN issued + 1 ELSE issued
  /\ LET did == [v \in Variants |-> copy_ensure_token(v, copies[v], now, r)]
     IN /\ copies' = [v \in Variants |-> did[v].cache]
        /\ side' = [tool |-> "ensure_token", args |-> <<r>>,
                    decision |-> [v \in Variants |-> did[v].decision],
                    outcome |-> [v \in Variants |-> did[v].outcome]]
  /\ UNCHANGED <<config, cache, now, locals, last_stored, tool_call,
                 app_state, recording, hist>>

\* all credentials configured; nothing served, the copies only
TogetherInit ==
  /\ ModuleLoad
  /\ Truthy(SPOTIFY_CLIENT_ID)
  /\ Truthy(SPOTIFY_CLIENT_SECRET)
  /\ Truthy(SPOTIFY_REFRESH_TOKEN)
  /\ app_state = "running"
  /\ TOKEN = DefaultToken
  /\ recording = FALSE
TogetherNext ==
  \/ LoadCopies
  \/ \E r \in TokenAnswers(IssuedToken(issued + 1)) \cup {RequestError} :
       Together_ensure_token(r)
  \/ \E d \in Times : Tick(d)
TogetherSpec == TogetherInit /\ [][TogetherNext]_vars

\* ------------------------------------------------------ server.py main()
\* a main() that serves whatever became of the authentication
MayServe_Always(got) == TRUE
\* `await app.run_async(...)' is reached when `await ensure_token()' returned
MayServe(got) == got.kind = "return"
\* `except Exception as e': the prints, and main() returns
main_except(got) == "exited"

\* main() calls ensure_token before anything is served
Main_Authenticate ==
  /\ app_state = "init"
  /\ StartCall(1, "ensure_token", None)
  /\ app_state' = "auth"

\* main() is resumed with what ensure_token returned or raised
Main_Resume ==
  /\ app_state = "auth"
  /\ EndCall(1)
  /\ app_state' = IF MayServe(result[1]) THEN "running" ELSE main_except(result[1])

\* `python server.py': the module is loaded and asyncio.run(main()) starts
BootInit ==
  /\ ModuleLoad
  /\ variant = "server"
  /\ app_state = "init"
  /\ TOKEN = DefaultToken
  /\ recording = FALSE
BootNext ==
  \/ Main_Authenticate
  \/ Main_Resume
  \/ Next
BootSpec == BootInit /\ [][BootNext]_vars

\* the same process with every credential configured, and with the
\* history of its invocations kept
HistInit ==
  /\ ModuleLoad
  /\ app_state = "running"
  /\ Truthy(SPOTIFY_CLIENT_ID)
  /\ Truthy(SPOTIFY_CLIENT_SECRET)
  /\ Truthy(SPOTIFY_REFRESH_TOKEN)
  /\ TOKEN = DefaultToken
  /\ recording = TRUE
HistSpec == HistInit /\ [][Next]_vars

\* ------------------------------------------------------ the tools' inputs
\* all sequences over S of length at most n
RECURSIVE SeqsUpTo(_, _)
SeqsUpTo(S, n) ==
  IF n = 0 THEN {<< >>}
  ELSE LET shorter == SeqsUpTo(S, n - 1)
       IN shorter \cup {Append(q, x) : q \in shorter, x \in S}

\* values of an audio feature, in hundredths: 30 is 0.30
FieldValues == {30, 40, 50, 80}
\* an upstream record carries the field or lacks it
Records(field) == {<< >>} \cup {[f \in {field} |-> v] : v \in FieldValues}
\* the JSON of GET audio-features: with or without the key "audio_features"
FeaturesAnswers(field) ==
  {<< >>} \cup {[audio_features |-> g] : g \in SeqsUpTo(Records(field), MaxGroup)}

\* answers to GET playlists/{id}: those of the resource API and two 404s
PlaylistIds == {"37i9dQ", "37i404dQ"}
PlaylistAnswers ==
  ResourceAnswers \cup {RequestError}
  \cup { [status |-> 404, text |-> <<"error", "Resource not found">>],
         [status |-> 404, text |-> <<"error", "Not found.">>],
         [status |-> 403, text |-> <<"error", "Resource not found">>] }

\* answers to the three requests of get_related_artists: a body of the
\* search is the list of the ids of the artists found
ArtistIds == {"4Z8W4f", "0TnOYI"}
ArtistAnswers ==
  ResourceAnswers \cup {RequestError}
  \cup { [status |-> 404, text |-> <<"error", "invalid id">>],
         [status |-> 200, text |-> NotJson] }
SearchAnswers ==
  {[status |-> 200, text |-> items] : items \in SeqsUpTo(ArtistIds, MaxGroup)}
  \cup { [status |-> 401, text |-> <<"error", "The access token expired">>],
         [status |-> 200, text |-> NotJson], RequestError }
\* get_audio_features is given the ids TrackId(1) .. TrackId(n); the track
\* and feature requests of the i-th id are answered by what the pattern
\* holds for i modulo 2
MaxTrackIds == 51
TrackId(i) == "trk" \o ToString(i)
TrackIdLists == {[i \in 1..n |-> TrackId(i)] : n \in 0..MaxTrackIds}
BulkAnswers ==
  { [status |-> 200, text |-> <<"audio_features">>],
    [status |-> 200, text |-> <<"items">>],
    [status |-> 302, text |-> NotJson],
    [status |-> 403, text |-> <<"error", "Forbidden">>],
    RequestError }
TrackAnswers ==
  { [status |-> 200, text |-> <<"name", "artists", "album">>],
    [status |-> 404, text |-> <<"error", "invalid id">>] }
FeatureAnswers ==
  { [status |-> 200, text |-> <<"energy", "valence">>],
    [status |-> 200, text |-> <<"null">>],
    [status |-> 403, text |-> <<"error", "Forbidden">>] }
Patterns(answers) == [0..1 -> answers]
\* compare_tracks is given TrackId(1) .. TrackId(n); its requests for a
\* track are answered in one of these ways, a 200 with a body about that track
MaxTracks == 6
ComparedLists == {[i \in 1..n |-> TrackId(i)] : n \in 0..MaxTracks}
TrackAnswersFor(track_id) ==
  { [status |-> 200, text |-> <<track_id, "name", "artists">>],
    [status |-> 200, text |-> <<track_id, "name", "artists: []">>],
    [status |-> 404, text |-> <<"error", "invalid id">>] }
FeatureAnswersFor(track_id) ==
  { [status |-> 200, text |-> <<track_id, "energy", "valence">>],
    [status |-> 200, text |-> <<"null">>],
    [status |-> 403, text |-> <<"error", "Forbidden">>] }
\* tokens a client presents
PresentedTokens == SeqsUpTo(Alphabet, MaxTokenLen)

\* --------------------------------------------- main.py, derived metrics
\* a quotient of two integers, kept exact
Frac(n, d) == [num |-> n, den |-> d]
Minus(a, b) == Frac(a.num * b.den - b.num * a.den, a.den * b.den)
\* `a >= th' with th in hundredths
Greater_OrEqual(a, th) == a.num >= th * a.den
\* `a > th' and `a < th' with th in hundredths, for a.den > 0
Greater(a, th) == a.num > th * a.den
Less(a, th) == a.num < th * a.den

ZeroDivisionError == Uncaught("ZeroDivisionError", <<Lit("division by zero")>>)

\* `sum(f.get(field, 0) for f in group)'
RECURSIVE Sum(_, _)
Sum(group, field) ==
  IF group = << >> THEN 0
  ELSE Get(Head(group), field, 0) + Sum(Tail(group), field)

\* a mean over the records that carry the field
Reduce_SkipMissing(j, field) ==
  LET group == Get(j, "audio_features", << >>)
      have == SelectSeq(group, LAMBDA f : field \in DOMAIN f)
  IN IF Len(have) = 0 THEN ZeroDivisionError
     ELSE Frac(Sum(have, field), Len(have))
\* `sum(f.get(field,0) for f in j.get("audio_features", []))
\*    / len(j.get("audio_features", []))'
Reduce(j, field) ==
  LET group == Get(j, "audio_features", << >>)
  IN IF Len(group) = 0 THEN ZeroDivisionError
     ELSE Frac(Sum(group, field), Len(group))

\* analyze_listening_shift from line 113 on: bf and af are the audio
\* features of the start range and of the end range ("shift" of the text
\* returned is left out)
analyze_listening_shift(bf, af) ==
  LET avg_b == Reduce(bf, "valence")
      avg_a == Reduce(af, "valence")
  IN IF avg_b = ZeroDivisionError \/ avg_a = ZeroDivisionError
     THEN [avg |-> << >>, outcome |-> ZeroDivisionError]
     ELSE LET shift == Minus(avg_a, avg_b)
              vibe  == IF Greater(shift, 10) THEN "upbeat"
                       ELSE IF Less(shift, -10) THEN "mellow" ELSE "stable"
          IN [avg |-> <<avg_b, avg_a>>, outcome |-> Returned([vibe |-> vibe])]

\* predict_future_taste from line 145 on: sf and lf are the audio features
\* of the short-term and of the long-term top tracks
predict_future_taste(sf, lf) ==
  LET avg_s == Reduce(sf, "energy")
      avg_l == Reduce(lf, "energy")
  IN IF avg_s = ZeroDivisionError \/ avg_l = ZeroDivisionError
     THEN [avg |-> << >>, outcome |-> ZeroDivisionError]
     ELSE LET delta    == Minus(avg_s, avg_l)
              forecast == IF Greater(delta, 10) THEN "hyping up"
                          ELSE IF Less(delta, -10) THEN "winding down"
                          ELSE "steady"
          IN [avg |-> <<avg_s, avg_l>>,
              outcome |-> Returned([energy_trend |-> forecast])]

\* `needle in s' for a path segment s: the segment itself, or a part of it
PartsOf == [s \in PlaylistIds |-> IF s = "37i404dQ" THEN {"404"} ELSE {}]
Within(needle, s) ==
  needle = s \/ (s \in DOMAIN PartsOf /\ needle \in PartsOf[s])
\* ------------------------------------------------ playlists.py, the tools
\* `needle in str(e)' for the message of an McpError
HasText(message, needle) ==
  \E i \in DOMAIN message :
    CASE "status" \in DOMAIN message[i] -> ToString(message[i].status) = needle
      [] "lit" \in DOMAIN message[i]    -> message[i].lit = needle
      [] "path" \in DOMAIN message[i]   ->
           \E k \in DOMAIN message[i].path : Within(needle, message[i].path[k])
      [] "body" \in DOMAIN message[i]   -> Contains(message[i].body, needle)

\* `[TextContent(type="text", text=json.dumps(data, indent=2))]'
JsonText(data) == [type |-> "text", text |-> <<"json.dumps", data>>]
\* the text returned in place of the 404 error
Remediation(what, playlist_id) ==
  [type |-> "text",
   text |-> <<what, playlist_id,
              "You need to set up a refresh token with the proper scopes",
              "Add it to your .env file as SPOTIFY_REFRESH_TOKEN">>]

\* the `try ... except McpError as e' of get_playlist and get_playlist_tracks
\* around `await SpotifyAPI.get(...)', which gave `got'
tools_PlaylistHandler(what, playlist_id, got) ==
  IF got.kind = "return" THEN Returned(JsonText(got.value.json))
  ELSE IF got.exc = "McpError"
          /\ HasText(got.message, "404")
          /\ HasText(got.message, "Resource not found")
       THEN Returned(Remediation(what, playlist_id))
       ELSE got
server_PlaylistHandler(what, playlist_id, got) ==
  IF got.kind = "return" THEN Returned(JsonText(got.value.json))
  ELSE IF got.exc = "McpError"
          /\ HasText(got.message, "404")
          /\ HasText(got.message, "Resource not found")
       THEN Returned(Remediation(what, playlist_id))
       ELSE got
\* main.py: no handler around the call
main_PlaylistHandler(what, playlist_id, got) ==
  IF got.kind = "return" THEN Returned(JsonText(got.value.json)) ELSE got
PlaylistHandler(what, playlist_id, got) ==
  CASE variant = "tools"  -> tools_PlaylistHandler(what, playlist_id, got)
    [] variant = "server" -> server_PlaylistHandler(what, playlist_id, got)
    [] variant = "main"   -> main_PlaylistHandler(what, playlist_id, got)

\* get_playlist, for the answer r to its resource request
get_playlist(playlist_id, r) ==
  PlaylistHandler("Unable to access playlist", playlist_id,
                  ApiOutcome("get", <<"playlists", playlist_id>>, r))
\* get_playlist_tracks, for the answer r to its resource request
get_playlist_tracks(playlist_id, r) ==
  PlaylistHandler("Unable to access tracks for playlist", playlist_id,
                  ApiOutcome("get", <<"playlists", playlist_id, "tracks">>, r))

\* --------------------------------------------------- get_related_artists
\* the texts get_related_artists returns
ArtistNotFound(artist_id) ==
  [type |-> "text", text |-> <<"Error: Artist with ID", artist_id,
                               "not found in Spotify database">>]
NoRelatedArtists(artist_id) ==
  [type |-> "text", text |-> <<"No related artists found for", artist_id>>]
ErrorFindingRelated(got) ==
  [type |-> "text", text |-> <<"Error finding related artists: ", got.message>>]
ArtistsText(artists) == [type |-> "text", text |-> <<"json.dumps", artists>>]

\* a filter that lets every artist found through
Filtered_KeepAll(artists, artist_id) == artists
\* `[a for a in artists if a.get("id") != artist_id]'
Filtered(artists, artist_id) ==
  LET Other(a) == a # artist_id IN SelectSeq(artists, Other)

\* get_related_artists for the answers to its requests: the requests it
\* made, in order, and what it gave to its caller
get_related_artists(artist_id, lookup, related, search) ==
  LET lookup_path  == <<"artists", artist_id>>
      related_path == <<"artists", artist_id, "related-artists">>
      search_path  == <<"search">>
      got1 == ApiOutcome("get", lookup_path, lookup)
      got2 == ApiOutcome("get", related_path, related)
      got3 == ApiOutcome("get", search_path, search)
  IN IF got1.kind = "raise"
     THEN [requests |-> <<lookup_path>>,
           outcome |->
             IF got1.exc = "McpError" /\ HasText(got1.message, "404")
             THEN Returned(ArtistNotFound(artist_id))
             ELSE Returned(ErrorFindingRelated(got1))]
     ELSE IF got2.kind = "return"
     THEN [requests |-> <<lookup_path, related_path>>,
           outcome |-> Returned(JsonText(got2.value.json))]
     ELSE IF got2.exc # "McpError"
     THEN [requests |-> <<lookup_path, related_path>>,
           outcome |-> Returned(ErrorFindingRelated(got2))]
     ELSE [requests |-> <<lookup_path, related_path, search_path>>,
           outcome |->
             IF got3.kind = "raise" THEN Returned(ErrorFindingRelated(got3))
             ELSE LET filtered_artists == Filtered(got3.value.json, artist_id)
                  IN IF filtered_artists # << >>
                     THEN Returned(ArtistsText(filtered_artists))
                     ELSE Returned(NoRelatedArtists(artist_id))]
\* ---------------------------------------------------- get_audio_features
BulkLimit == 50
LoopLimit == 20
First(s, n) == SubSeq(s, 1, IF Len(s) < n THEN Len(s) ELSE n)
\* `if feature_data': the JSON null is false
JsonTruthy(json) == json # <<"null">>
dummy_features == "Information not available"
FeaturesNote == "Audio features unavailable - API permission restrictions"
FeaturesExplanation ==
  [type |-> "text", text |-> <<"Unable to access audio features via Spotify API">>]
ErrorRetrieving(got) ==
  [type |-> "text", text |-> <<"Error retrieving audio features: ", got.message>>]

\* one round of `for track_id in track_ids[:20]': the entry appended to
\* all_features for the answers to the two requests
FeaturesEntry(track_id, track, feature) ==
  LET track_data   == ApiOutcome("get", <<"tracks", track_id>>, track)
      feature_data == ApiOutcome("get", <<"audio-features", track_id>>, feature)
  IN IF feature_data.kind = "return" /\ JsonTruthy(feature_data.value.json)
     THEN [id |-> track_id, track_info |-> track_data.kind = "return",
           features |-> feature_data.value.json]
     ELSE [id |-> track_id, track_info |-> track_data.kind = "return",
           features |-> dummy_features, note |-> FeaturesNote]

\* get_audio_features for the answers to its requests: the requests it made,
\* in order, and what it gave to its caller
get_audio_features(track_ids, bulk, tracks, features) ==
  LET bulk_request == [path |-> <<"audio-features">>,
                       ids |-> First(track_ids, BulkLimit)]
      data == ApiOutcome("get", <<"audio-features">>, bulk)
      processed == First(track_ids, LoopLimit)
      all_features ==
        [i \in DOMAIN processed |->
           FeaturesEntry(processed[i], tracks[i % 2], features[i % 2])]
      RequestsOf(i) ==
        <<[path |-> <<"tracks", processed[i]>>],
          [path |-> <<"audio-features", processed[i]>>]>>
      loop_requests ==
        [k \in 1..(2 * Len(processed)) |-> RequestsOf((k + 1) \div 2)[2 - (k % 2)]]
  IN IF data.kind = "return" /\ Contains(data.value.json, "audio_features")
     THEN [requests |-> <<bulk_request>>,
           outcome |-> Returned(JsonText(data.value.json))]
     ELSE IF data.kind = "raise" /\ data.exc # "McpError"
     THEN [requests |-> <<bulk_request>>,
           outcome |-> Returned(ErrorRetrieving(data))]
     ELSE [requests |-> <<bulk_request>> \o loop_requests,
           outcome |-> IF all_features # << >>
                       THEN Returned(JsonText(all_features))
                       ELSE Returned(FeaturesExplanation)]
\* --------------------------------------------------------- compare_tracks
\* `None' in the list features
NoFeatures == << >>
WrongCount ==
  [type |-> "text", text |-> <<"Please provide between 2 and 5 track IDs for comparison">>]
NoComparison ==
  [type |-> "text", text |-> <<"Could not retrieve audio features for the provided tracks">>]
\* `track_data.get("artists", [{}])[0]' raises IndexError for an empty list
HasFirstArtist(json) == ~Contains(json, "artists: []")

\* a round that appends nothing to features when the track request failed
compare_tracks_round_NoPlaceholder(call, track_id, track, feature) ==
  LET track_data   == ApiOutcome("get", <<"tracks", track_id>>, track)
      feature_data == ApiOutcome("get", <<"audio-features", track_id>>, feature)
  IN IF track_data.kind = "return" /\ HasFirstArtist(track_data.value.json)
     THEN [call EXCEPT
             !.tracks_info = Append(@, [id |-> track_id, name |-> track_data.value.json]),
             !.features = Append(@,
                IF feature_data.kind = "return" /\ JsonTruthy(feature_data.value.json)
                THEN feature_data.value.json ELSE NoFeatures),
             !.requests = @ \o <<<<"tracks", track_id>>, <<"audio-features", track_id>>>>,
             !.processed = @ + 1]
     ELSE [call EXCEPT
             !.tracks_info = Append(@, [id |-> track_id, name |-> <<"Unknown Track">>]),
             !.requests = Append(@, <<"tracks", track_id>>),
             !.processed = @ + 1]
\* one round of `for track_id in track_ids', for the answers to its requests
compare_tracks_round(call, track_id, track, feature) ==
  LET track_data   == ApiOutcome("get", <<"tracks", track_id>>, track)
      feature_data == ApiOutcome("get", <<"audio-features", track_id>>, feature)
  IN IF track_data.kind = "return" /\ HasFirstArtist(track_data.value.json)
     THEN [call EXCEPT
             !.tracks_info = Append(@, [id |-> track_id, name |-> track_data.value.json]),
             !.features = Append(@,
                IF feature_data.kind = "return" /\ JsonTruthy(feature_data.value.json)
                THEN feature_data.value.json ELSE NoFeatures),
             !.requests = @ \o <<<<"tracks", track_id>>, <<"audio-features", track_id>>>>,
             !.processed = @ + 1]
     ELSE [call EXCEPT
             !.tracks_info = Append(@, [id |-> track_id, name |-> <<"Unknown Track">>]),
             !.features = Append(@, NoFeatures),
             !.requests = Append(@, <<"tracks", track_id>>),
             !.processed = @ + 1]

\* what compare_tracks returns after the loop
compare_tracks_result(tracks_info, features) ==
  IF (\A i \in DOMAIN features : features[i] = NoFeatures) \/ Len(features) < 2
  THEN Returned(NoComparison)
  ELSE Returned([type |-> "text",
                 text |-> <<"json.dumps",
                            [i \in {k \in DOMAIN features :
                                      k <= Len(tracks_info) /\ features[k] # NoFeatures}
                               |-> [track_name |-> tracks_info[i].name,
                                    feature |-> features[i]]]>>])
\* ------------------------------------------ SimpleBearerAuthProvider
\* `AccessToken(token=, client_id=, scopes=, expires_at=)' and `None'
AccessToken(tok, client_id, scopes, exp) ==
  [kind |-> "AccessToken", token |-> tok, client_id |-> client_id,
   scopes |-> scopes, expires_at |-> exp]
NoAccessToken == [kind |-> "None"]

Lower(tok) == [i \in DOMAIN tok |-> IF tok[i] = "T" THEN "t" ELSE tok[i]]
\* a comparison that ignores case
load_access_token_IgnoreCase(self_token, presented) ==
  IF Lower(presented) = Lower(self_token)
  THEN AccessToken(presented, "shadow-listener", << >>, None)
  ELSE NoAccessToken
\* `if token == self.token: return AccessToken(...)' ; `return None'
load_access_token(self_token, presented) ==
  IF presented = self_token
  THEN AccessToken(presented, "shadow-listener", << >>, None)
  ELSE NoAccessToken

\* ------------------------------------------------- actions of the tools
\* a tool call reads and writes nothing but its own arguments and locals
ToolFrame == UNCHANGED <<config, cache, now, env, locals, last_stored, other, hist>>

Tool_analyze_listening_shift(bf, af) ==
  /\ variant = "main"
  /\ tool_call = NoCall
  /\ LET did == analyze_listening_shift(bf, af)
     IN tool_call' = [tool |-> "analyze_listening_shift", args |-> <<bf, af>>,
                      avg |-> did.avg, outcome |-> did.outcome]
  /\ ToolFrame

Tool_predict_future_taste(sf, lf) ==
  /\ variant = "main"
  /\ tool_call = NoCall
  /\ LET did == predict_future_taste(sf, lf)
     IN tool_call' = [tool |-> "predict_future_taste", args |-> <<sf, lf>>,
                      avg |-> did.avg, outcome |-> did.outcome]
  /\ ToolFrame

\* main.py has no get_playlist
Tool_get_playlist(playlist_id, r) ==
  /\ variant \in {"tools", "server"}
  /\ tool_call = NoCall
  /\ tool_call' = [tool |-> "get_playlist", args |-> <<playlist_id, r>>,
                   outcome |-> get_playlist(playlist_id, r)]
  /\ ToolFrame

Tool_get_playlist_tracks(playlist_id, r) ==
  /\ tool_call = NoCall
  /\ tool_call' = [tool |-> "get_playlist_tracks", args |-> <<playlist_id, r>>,
                   outcome |-> get_playlist_tracks(playlist_id, r)]
  /\ ToolFrame

\* the package under tools/ defines no auth provider
Tool_load_access_token(presented) ==
  /\ variant \in {"main", "server"}
  /\ tool_call = NoCall
  /\ tool_call' = [tool |-> "load_access_token", args |-> <<presented>>,
                   outcome |-> load_access_token(TOKEN, presented)]
  /\ ToolFrame

\* main.py has no get_related_artists
Tool_get_related_artists(artist_id, lookup, related, search) ==
  /\ variant \in {"tools", "server"}
  /\ tool_call = NoCall
  /\ LET did == get_related_artists(artist_id, lookup, related, search)
     IN tool_call' = [tool |-> "get_related_artists",
                      args |-> <<artist_id, lookup, related, search>>,
                      requests |-> did.requests, outcome |-> did.outcome]
  /\ ToolFrame
\* main.py asks for the bulk features only; the tool of tools/ and server.py
Tool_get_audio_features(track_ids, bulk, tracks, features) ==
  /\ variant \in {"tools", "server"}
  /\ tool_call = NoCall
  /\ LET did == get_audio_features(track_ids, bulk, tracks, features)
     IN tool_call' = [tool |-> "get_audio_features",
                      args |-> <<track_ids, bulk, tracks, features>>,
                      requests |-> did.requests, outcome |-> did.outcome]
  /\ ToolFrame
\* compare_tracks is called: the check of the number of ids, then the
\* empty lists
Tool_compare_tracks(track_ids) ==
  /\ variant \in {"tools", "server"}
  /\ tool_call = NoCall
  /\ tool_call' = [tool |-> "compare_tracks", args |-> <<track_ids>>,
                   processed |-> 0, tracks_info |-> << >>, features |-> << >>,
                   requests |-> << >>,
                   outcome |-> IF Len(track_ids) >= 2 /\ Len(track_ids) <= 5
                               THEN NoResult ELSE Returned(WrongCount)]
  /\ ToolFrame

\* the requests of the next id are answered
Tool_compare_tracks_round(track, feature) ==
  /\ tool_call.tool = "compare_tracks"
  /\ tool_call.outcome = NoResult
  /\ tool_call.processed < Len(tool_call.args[1])
  /\ tool_call' = compare_tracks_round(tool_call,
                     tool_call.args[1][tool_call.processed + 1], track, feature)
  /\ ToolFrame

\* the loop is over
Tool_compare_tracks_result ==
  /\ tool_call.tool = "compare_tracks"
  /\ tool_call.outcome = NoResult
  /\ tool_call.processed = Len(tool_call.args[1])
  /\ tool_call' = [tool_call EXCEPT
                     !.outcome = compare_tracks_result(tool_call.tracks_info,
                                                       tool_call.features)]
  /\ ToolFrame
\* the answer has gone to the caller; what the call held is discarded
ToolReturn ==
  /\ tool_call # NoCall
  /\ tool_call.outcome # NoResult
  /\ tool_call' = NoCall
  /\ ToolFrame

\* the process starts with any bearer token configured
ToolInit ==
  /\ ModuleLoad
  /\ app_state = "running"
  /\ TOKEN \in BearerTokens
  /\ recording = FALSE

\* one call at a time: a tool is called when the answer of the call before
\* has gone to its caller
ToolNext ==
  \/ /\ tool_call = NoCall
     /\ variant = "main"
     /\ \E bf, af \in FeaturesAnswers("valence") : Tool_analyze_listening_shift(bf, af)
  \/ /\ tool_call = NoCall
     /\ variant = "main"
     /\ \E sf, lf \in FeaturesAnswers("energy") : Tool_predict_future_taste(sf, lf)
  \/ /\ tool_call = NoCall
     /\ \E id \in PlaylistIds, r \in PlaylistAnswers : Tool_get_playlist(id, r)
  \/ /\ tool_call = NoCall
     /\ \E id \in PlaylistIds, r \in PlaylistAnswers : Tool_get_playlist_tracks(id, r)
  \/ /\ tool_call = NoCall
     /\ \E presented \in PresentedTokens : Tool_load_access_token(presented)
  \/ /\ tool_call = NoCall
     /\ \E artist_id \in ArtistIds, lookup, related \in ArtistAnswers,
           search \in SearchAnswers :
          Tool_get_related_artists(artist_id, lookup, related, search)
  \/ /\ tool_call = NoCall
     /\ \E track_ids \in TrackIdLists, bulk \in BulkAnswers,
           tracks \in Patterns(TrackAnswers), features \in Patterns(FeatureAnswers) :
          Tool_get_audio_features(track_ids, bulk, tracks, features)
  \/ /\ tool_call = NoCall
     /\ \E track_ids \in ComparedLists : Tool_compare_tracks(track_ids)
  \/ /\ tool_call.tool = "compare_tracks"
     /\ tool_call.outcome = NoResult
     /\ tool_call.processed < Len(tool_call.args[1])
     /\ \E track \in TrackAnswersFor(tool_call.args[1][tool_call.processed + 1]),
           feature \in FeatureAnswersFor(tool_call.args[1][tool_call.processed + 1]) :
          Tool_compare_tracks_round(track, feature)
  \/ Tool_compare_tracks_result
  \/ ToolReturn

ToolSpec == ToolInit /\ [][ToolNext]_vars

\* ------------------------------------------------------------ properties
\* the message of an error carries the value v as its piece of kind k
Carries(message, k, v) ==
  \E i \in DOMAIN message : k \in DOMAIN message[i] /\ message[i][k] = v

\* task t starts an invocation in this step
Starts(t) == pc[t] = "idle" /\ pc'[t] # "idle"
\* task t consumes the answer of the token endpoint in this step
TokenAnswered(t) ==
  pc[t] = "token_wait" /\ (pc'[t] # "token_wait" \/ token_posts'[t] # token_posts[t])
\* the answer was a 200: ensure_token returned
TokenGranted(t) ==
  TokenAnswered(t) /\ (pc'[t] = "send" \/ result'[t].kind = "return")
\* task t consumes the answer of the resource API in this step
ApiAnswered(t) == pc[t] = "api_wait" /\ pc'[t] # "api_wait"

\* C1: an ensure_token call made while now < _expires_at - 60 returns the
\* cached _access_token, issues no HTTP request and leaves _access_token
\* and _expires_at unchanged.
C1_CachedTokenReused ==
  [][\A t \in Tasks :
       (Starts(t) /\ now < expires_at - 60) =>
         /\ token'[t] = access_token
         /\ pc'[t] \in {"send", "done"}
         /\ (pc'[t] = "done" => result'[t] = Returned(access_token))
         /\ token_posts'[t] = 0
         /\ request'[t] = NoMessage
         /\ access_token' = access_token
         /\ expires_at' = expires_at]_vars

\* a call has been served from the cache inside the validity window
C1_Witness ==
  \E t \in Tasks :
    /\ decision[t] = "cache"
    /\ now < expires_at - 60
    /\ token[t] = access_token
    /\ token_posts[t] = 0

\* C2: an ensure_token call made while now >= _expires_at - 60, with the
\* client credentials configured, issues exactly one POST to the token
\* endpoint: one when it is made and no other until the invocation ends,
\* whatever the answer is.
C2_ExactlyOneTokenPost ==
  [][\A t \in Tasks :
       /\ (/\ Starts(t)
           /\ now >= expires_at - 60
           /\ Truthy(SPOTIFY_CLIENT_ID) /\ Truthy(SPOTIFY_CLIENT_SECRET))
          => /\ token_posts'[t] = 1
             /\ pc'[t] = "token_wait"
             /\ request'[t].url = "TOKEN_URL"
       /\ (pc[t] # "idle" /\ pc'[t] # "idle")
          => token_posts'[t] = token_posts[t]]_vars

\* a refresh made exactly at _expires_at - 60 has ended in an error after
\* one POST
C2_Witness ==
  \E t \in Tasks :
    /\ decision[t] = "refresh"
    /\ pc[t] = "done"
    /\ now = expires_at - 60
    /\ response[t].status \notin {200, -1}
    /\ token_posts[t] = 1

\* C3 (as stated): a token answer with a status other than 200 ends
\* ensure_token with an error that carries the HTTP status and the response
\* body, and the cache is left as it was.
C3_AuthErrorCarriesStatusAndBody ==
  [][\A t \in Tasks :
       (TokenAnswered(t) /\ ~TokenGranted(t) /\ response'[t] # RequestError) =>
         /\ pc'[t] = "done"
         /\ result'[t].kind = "raise"
         /\ result'[t].exc = "McpError"
         /\ Carries(result'[t].message, "status", response'[t].status)
         /\ Carries(result'[t].message, "body", response'[t].text)
         /\ access_token' = access_token
         /\ expires_at' = expires_at]_vars

\* C4: on a 200 answer ensure_token stores the answer's access_token,
\* sets _expires_at to the time of storing plus expires_in (3600 when the
\* field is absent) and returns the stored token.
C4_StoreOnSuccess ==
  [][\A t \in Tasks :
       TokenGranted(t) =>
         LET resp == last_stored'.json IN
         /\ access_token' = resp.access_token
         /\ expires_at' = now + (IF "expires_in" \in DOMAIN resp
                                 THEN resp.expires_in ELSE 3600)
         /\ token'[t] = resp.access_token
         /\ (op[t] = "ensure_token" => result'[t] = Returned(resp.access_token))]_vars

\* a 200 answer without expires_in has been stored after the clock moved,
\* and get or post holds the token it returned
C4_Witness ==
  \E t \in Tasks :
    /\ pc[t] = "send"
    /\ token_posts[t] = 1
    /\ last_stored # NoMessage
    /\ "expires_in" \notin DOMAIN last_stored.json
    /\ last_stored.at > 1
    /\ access_token = last_stored.json.access_token
    /\ token[t] = access_token
    /\ expires_at = now + 3600

\* C5 (as stated): with the client id or the client secret missing and the
\* cache not reusable, ensure_token fails before any HTTP request is issued
\* and the cache is left as it was.
C5_FailFastOnMissingCredentials ==
  [][\A t \in Tasks :
       (/\ Starts(t)
        /\ ~(now < expires_at - 60)
        /\ (~Truthy(SPOTIFY_CLIENT_ID) \/ ~Truthy(SPOTIFY_CLIENT_SECRET)))
       => /\ pc'[t] = "done"
          /\ result'[t].kind = "raise"
          /\ token_posts'[t] = 0
          /\ request'[t] = NoMessage
          /\ access_token' = access_token
          /\ expires_at' = expires_at]_vars

\* C6 (as stated): a token request uses the refresh-token grant, with a
\* Basic-auth header and the refresh credential in the body, if and only if
\* a refresh credential is configured, and the client-credentials grant
\* otherwise.
C6_GrantFollowsConfiguration ==
  \A t \in Tasks :
    pc[t] = "token_wait" =>
      IF Truthy(SPOTIFY_REFRESH_TOKEN)
      THEN /\ request[t].data.grant_type = "refresh_token"
           /\ request[t].data.refresh_token = SPOTIFY_REFRESH_TOKEN
           /\ "Authorization" \in DOMAIN request[t].headers
           /\ request[t].headers.Authorization[1] = "Basic"
      ELSE request[t].data.grant_type = "client_credentials"

\* C7: get and post complete ensure_token before they issue the resource
\* request; the request carries `Bearer <token>' with the token ensure_token
\* returned to this invocation; when ensure_token fails no resource request
\* is issued.
C7_TokenBeforeRequest ==
  \A t \in Tasks :
    /\ api_requests[t] > 0 => (op[t] \in {"get", "post"} /\ token[t] # None)
    /\ pc[t] = "api_wait" =>
         /\ request[t].url = <<"API_BASE", path[t]>>
         /\ request[t].headers.Authorization = <<"Bearer", token[t]>>
    /\ pc[t] = "token_wait" => api_requests[t] = 0
    /\ (pc[t] = "done" /\ token[t] = None) => api_requests[t] = 0

\* a resource request is in flight with the token of its own invocation
\* while the cache already holds the token of another refresh
C7_Witness ==
  \E t \in Tasks :
    /\ pc[t] = "api_wait"
    /\ request[t].headers.Authorization = <<"Bearer", token[t]>>
    /\ token[t] # access_token

\* C8 (as stated): for a resource answer with status >= 400 get and post
\* raise an error whose message carries the request path, the HTTP status
\* and the response body; for a status < 400 they return the parsed JSON.
C8_UpstreamErrorCarriesPathStatusBody ==
  [][\A t \in Tasks :
       (ApiAnswered(t) /\ response'[t] # RequestError) =>
         IF response'[t].status >= 400
         THEN /\ result'[t].kind = "raise"
              /\ Carries(result'[t].message, "path", path[t])
              /\ Carries(result'[t].message, "status", response'[t].status)
              /\ Carries(result'[t].message, "body", response'[t].text)
         ELSE result'[t] = Returned([json |-> response'[t].text])]_vars

\* the answer r makes the request it answers fail
FailureAnswer(stage, r) ==
  \/ r = RequestError
  \/ stage = "token_wait" /\ r.status # 200
  \/ stage = "api_wait" /\ r.status >= 400

\* C9: no retry: an invocation issues at most one token POST and at most
\* one resource request, and a failed request (non-200 token answer, status
\* >= 400, connection error) ends the invocation with the error and without
\* a further request.
C9_NoRetry ==
  [][\A t \in Tasks :
       /\ token_posts'[t] <= 1
       /\ api_requests'[t] <= 1
       /\ (/\ pc[t] \in {"token_wait", "api_wait"}
           /\ response'[t] # response[t]
           /\ FailureAnswer(pc[t], response'[t]))
          => /\ pc'[t] = "done"
             /\ result'[t].kind = "raise"
             /\ token_posts'[t] = token_posts[t]
             /\ api_requests'[t] = api_requests[t]
       /\ (pc[t] = "done" => pc'[t] \in {"done", "idle"})]_vars

\* an invocation has failed on its resource request after one token POST
\* and one resource request
C9_Witness ==
  \E t \in Tasks :
    /\ pc[t] = "done"
    /\ result[t].kind = "raise"
    /\ token_posts[t] = 1
    /\ api_requests[t] = 1
    /\ FailureAnswer("api_wait", response[t])

\* C10: concurrent invocations that observe an expired token each issue a
\* token request; each one answered with 200 returns the token of its own
\* answer; once all invocations have finished the cache holds the token and
\* the expiry of the answer stored last; every token handed out was issued
\* by a successful token answer.
C10_ConcurrentRefreshConverges ==
  /\ ((\A t \in Tasks : pc[t] \in {"idle", "done"}) /\ last_stored # NoMessage)
     => /\ access_token = last_stored.json.access_token
        /\ expires_at = last_stored.at
                        + (IF "expires_in" \in DOMAIN last_stored.json
                           THEN last_stored.json.expires_in ELSE 3600)
  /\ \A t \in Tasks :
       /\ token[t] # None => \E i \in 1..issued : token[t] = IssuedToken(i)
       /\ (pc[t] = "done" /\ result[t].kind = "return" /\ op[t] = "ensure_token")
          => result[t].value = token[t]

\* two invocations refreshed concurrently: the second 200 answer replaced
\* a token that was still reusable; both are finished, the second returned
\* its own token and the cache holds it
C10_Witness ==
  /\ \A t \in Tasks : pc[t] \in {"idle", "done"}
  /\ issued = 2
  /\ last_stored # NoMessage
  /\ last_stored.raced
  /\ access_token = IssuedToken(2)
  /\ last_stored.json.access_token = IssuedToken(2)
  /\ \E t \in Tasks :
       /\ pc[t] = "done"
       /\ token_posts[t] = 1
       /\ result[t] = Returned(IssuedToken(2))

\* C11 (as stated): a connection failure of the token POST or of the resource
\* request ends the invocation with the tool's transport error (an McpError
\* with the connection message), without a further request, and the cache
\* is left as it was.
C11_TransportErrorClassified ==
  [][\A t \in Tasks :
       (/\ pc[t] \in {"token_wait", "api_wait"}
        /\ response'[t] # response[t]
        /\ response'[t] = RequestError)
       => /\ pc'[t] = "done"
          /\ result'[t].kind = "raise"
          /\ result'[t].exc = "McpError"
          /\ result'[t].message[1] \in {Lit("Connection error: "), Lit("Request error: ")}
          /\ token_posts'[t] = token_posts[t]
          /\ api_requests'[t] = api_requests[t]
          /\ access_token' = access_token
          /\ expires_at' = expires_at]_vars

\* C17: there is no invalidation path: a failed resource request (status
\* >= 400, 401 included, or a connection failure) and a failed token request
\* leave _access_token and _expires_at as they were and do not move the
\* clock; a call made while the token is still reusable takes it from the
\* cache without a token POST.
C17_NoInvalidation ==
  [][\A t \in Tasks :
       /\ (/\ pc[t] \in {"token_wait", "api_wait"}
           /\ response'[t] # response[t]
           /\ FailureAnswer(pc[t], response'[t]))
          => /\ access_token' = access_token
             /\ expires_at' = expires_at
             /\ now' = now
       /\ (Starts(t) /\ now < expires_at - 60)
          => /\ decision'[t] = "cache"
             /\ token'[t] = access_token
             /\ token_posts'[t] = 0]_vars

\* a resource request made with the cached token was answered 401 and the
\* cache still holds that token, reusable
C17_Witness ==
  \E t \in Tasks :
    /\ pc[t] = "done"
    /\ decision[t] = "cache"
    /\ response[t].status = 401
    /\ result[t].kind = "raise"
    /\ access_token = token[t]
    /\ now < expires_at - 60

\* C18: no step writes the credential set or the bearer token of the auth
\* provider; _access_token and _expires_at are written only by the step in
\* which ensure_token handles a 200 answer of the token endpoint.
C18_OnlyCacheWritten ==
  [][/\ config' = config
     /\ (access_token' # access_token \/ expires_at' # expires_at)
        => \E t \in Tasks :
             /\ TokenGranted(t)
             /\ issued' = issued + 1
             /\ access_token' = last_stored'.json.access_token]_vars

\* a second token has been stored while a resource request of another
\* invocation is in flight, and the credentials are those of the start
C18_Witness ==
  /\ issued = 2
  /\ access_token = IssuedToken(2)
  /\ \E t \in Tasks : pc[t] = "api_wait" /\ token[t] = IssuedToken(1)
  /\ <<SPOTIFY_CLIENT_ID, SPOTIFY_CLIENT_SECRET, SPOTIFY_REFRESH_TOKEN>> \in Environments

\* C20 (as stated): a token handed out by ensure_token is the one of a 200
\* answer or a cached one taken strictly before _expires_at - 60; the
\* initial empty token is never handed out; the first ensure_token call of
\* the process issues a token request.
C20_FirstCallRequestsToken ==
  [][\A t \in Tasks :
       /\ (Starts(t) /\ token'[t] # None)
          => (now < expires_at - 60 /\ token'[t] = access_token)
       /\ TokenGranted(t) => token'[t] = IssuedToken(issued')
       /\ token'[t] # ""
       /\ (Starts(t) /\ calls = 0) => token_posts'[t] = 1]_vars

\* C20 (amended): as stated, but the first ensure_token call of the process
\* either issues a token request or fails on the credentials check; it is
\* never served from the cache.
C20_ReturnedTokenIsFresh ==
  [][\A t \in Tasks :
       /\ (Starts(t) /\ token'[t] # None)
          => (now < expires_at - 60 /\ token'[t] = access_token)
       /\ TokenGranted(t) => token'[t] = IssuedToken(issued')
       /\ token'[t] # ""
       /\ (Starts(t) /\ calls = 0)
          => /\ decision'[t] = "refresh"
             /\ token'[t] = None
             /\ \/ token_posts'[t] = 1 /\ pc'[t] = "token_wait"
                \/ /\ token_posts'[t] = 0
                   /\ result'[t] = McpError(MissingCredentialsMessage)]_vars

\* the first call of the process has failed on the credentials check
\* without a token request
C20_Witness ==
  /\ calls = 1
  /\ issued = 0
  /\ access_token = ""
  /\ \E t \in Tasks :
       /\ pc[t] = "done"
       /\ token_posts[t] = 0
       /\ token[t] = None
       /\ result[t] = McpError(MissingCredentialsMessage)

\* C19: every invocation that has started ends with a returned value or
\* with an error, given that every HTTP request is answered or fails in the
\* end.
C19_EveryInvocationEnds ==
  \A t \in Tasks :
    (pc[t] # "idle") ~> (pc[t] = "done" /\ result[t].kind \in {"return", "raise"})

\* an invocation has ended with the JSON of its resource request after a
\* token POST and a resource request
C19_Witness ==
  \E t \in Tasks :
    /\ pc[t] = "done"
    /\ result[t].kind = "return"
    /\ token_posts[t] = 1
    /\ api_requests[t] = 1
    /\ response[t].status = 200

\* ------------------------------------------- properties of the tools
\* the tool_call is one of a derived-metric tool that returned its text
MetricReturned ==
  /\ tool_call.tool \in {"analyze_listening_shift", "predict_future_taste"}
  /\ tool_call.outcome.kind = "return"
\* the field a derived-metric tool averages
MetricField == IF tool_call.tool = "analyze_listening_shift" THEN "valence" ELSE "energy"
\* the groups of the call: analyze_listening_shift compares the end range
\* (second) with the start range (first), predict_future_taste the
\* short-term tracks (second) with the long-term tracks (first)
FirstGroup ==
  IF tool_call.tool = "analyze_listening_shift" THEN 1 ELSE 2
SecondGroup ==
  IF tool_call.tool = "analyze_listening_shift" THEN 2 ELSE 1
GroupOf(i) == Get(tool_call.args[i], "audio_features", << >>)
MetricLabel ==
  IF tool_call.tool = "analyze_listening_shift"
  THEN tool_call.outcome.value.vibe
  ELSE tool_call.outcome.value.energy_trend
LabelsOf ==
  IF tool_call.tool = "analyze_listening_shift"
  THEN <<"upbeat", "mellow", "stable">>
  ELSE <<"hyping up", "winding down", "steady">>
\* delta = DeltaNum / DeltaDen hundredths, DeltaDen > 0
DeltaNum ==
  tool_call.avg[SecondGroup].num * tool_call.avg[FirstGroup].den
  - tool_call.avg[FirstGroup].num * tool_call.avg[SecondGroup].den
DeltaDen == tool_call.avg[FirstGroup].den * tool_call.avg[SecondGroup].den

RECURSIVE TotalOf(_, _)
TotalOf(group, field) ==
  IF group = << >> THEN 0
  ELSE (IF field \in DOMAIN Head(group) THEN Head(group)[field] ELSE 0)
       + TotalOf(Tail(group), field)

\* C13: the mean of a non-empty group is the sum of the field over all its
\* records, a record without the field counting 0, divided by the number of
\* all its records; two non-empty groups never make the tool raise.
C13_MeanCountsMissingAsZero ==
  /\ MetricReturned =>
       \A i \in {1, 2} :
         /\ tool_call.avg[i].den = Len(GroupOf(i))
         /\ tool_call.avg[i].num = TotalOf(GroupOf(i), MetricField)
  /\ (/\ tool_call.tool \in {"analyze_listening_shift", "predict_future_taste"}
      /\ GroupOf(1) # << >> /\ GroupOf(2) # << >>)
     => tool_call.outcome.kind = "return"

\* the group of one record with valence 0.8 and one empty record has been
\* reduced to 0.4
C13_Witness ==
  /\ MetricReturned
  /\ tool_call.tool = "analyze_listening_shift"
  /\ GroupOf(1) = <<[valence |-> 80], << >>>>
  /\ tool_call.avg[1].num = 40 * tool_call.avg[1].den

\* C14 (as stated): when a group is empty after the fetch, the derived-metric
\* tool ends with an error of its taxonomy, not with a division by zero.
C14_EmptyGroupDefinedError ==
  (/\ tool_call.tool \in {"analyze_listening_shift", "predict_future_taste"}
   /\ (GroupOf(1) = << >> \/ GroupOf(2) = << >>))
  => /\ tool_call.outcome.kind = "raise"
     /\ tool_call.outcome.exc \in {"McpError", "ValueError"}

\* C15 (as stated): get_playlist and get_playlist_tracks of the copies with
\* the remediation message answer every 404 of the resource endpoint with a
\* returned text that carries the guidance, whatever the body of the 404.
C15_NotFoundGivesGuidance ==
  (/\ tool_call.tool \in {"get_playlist", "get_playlist_tracks"}
   /\ variant \in {"tools", "server"}
   /\ tool_call.args[2].status = 404)
  => /\ tool_call.outcome.kind = "return"
     /\ Contains(tool_call.outcome.value.text,
                 "Add it to your .env file as SPOTIFY_REFRESH_TOKEN")

\* C16: load_access_token grants access iff the presented token equals the
\* configured one, character for character; the grant carries the presented
\* token, no scopes and no expiry.
C16_ExactBearerMatch ==
  tool_call.tool = "load_access_token" =>
    /\ (tool_call.outcome.kind = "AccessToken") <=> (tool_call.args[1] = TOKEN)
    /\ tool_call.outcome.kind = "AccessToken"
       => /\ tool_call.outcome.token = TOKEN
          /\ tool_call.outcome.scopes = << >>
          /\ tool_call.outcome.expires_at = None

\* a token that differs from the configured one only in the case of a
\* character has been rejected
C16_Witness ==
  /\ tool_call.tool = "load_access_token"
  /\ tool_call.args[1] # TOKEN
  /\ Lower(tool_call.args[1]) = Lower(TOKEN)
  /\ tool_call.outcome = NoAccessToken

\* C21: the cached token and the cached expiry always come from the same
\* token response, in every state and with invocations in flight: both are
\* unset before the first store, and afterwards the token is the one of the
\* response stored last and the expiry is that response's lifetime (3600
\* without expires_in) counted from the moment it was stored.
C21_TokenAndExpiryFromSameAnswer ==
  IF last_stored = NoMessage
  THEN access_token = "" /\ expires_at = 0
  ELSE /\ access_token = last_stored.json.access_token
       /\ expires_at = last_stored.at + Get(last_stored.json, "expires_in", 3600)

\* a second response, with a shorter lifetime, has overwritten the first
\* while another invocation is still in flight
C21_Witness ==
  /\ issued = 2
  /\ last_stored # NoMessage
  /\ last_stored.json = [access_token |-> IssuedToken(2), expires_in |-> 60]
  /\ expires_at = last_stored.at + 60
  /\ \E t \in Tasks : pc[t] \in {"send", "api_wait", "token_wait"}

\* the request get_playlist / get_playlist_tracks makes for a playlist id
PlaylistPath(tool, playlist_id) ==
  IF tool = "get_playlist" THEN <<"playlists", playlist_id>>
  ELSE <<"playlists", playlist_id, "tracks">>

\* C25: get_playlist and get_playlist_tracks substitute the remediation
\* message only for a 404 of the resource endpoint: a request that failed in
\* any other way (another status >= 400, no HTTP answer) gives its caller
\* the very error SpotifyAPI.get raised, whatever the playlist id and the
\* response body contain.
C25_RemediationOnlyFor404 ==
  (/\ tool_call.tool \in {"get_playlist", "get_playlist_tracks"}
   /\ tool_call.args[2].status # 404
   /\ (tool_call.args[2] = RequestError \/ tool_call.args[2].status >= 400))
  => tool_call.outcome =
       ApiOutcome("get", PlaylistPath(tool_call.tool, tool_call.args[1]),
                  tool_call.args[2])

\* the request got no HTTP answer, or one with a status >= 400
Failed(r) == r = RequestError \/ r.status >= 400
\* the request was answered with a body r.json() gives back
Decoded(r) == ~Failed(r) /\ IsJson(r.text)

C27_BestEffortPerId ==
  tool_call.tool = "get_audio_features" =>
    LET track_ids == tool_call.args[1]
        bulk      == tool_call.args[2]
        features  == tool_call.args[4]
        processed == First(track_ids, 20)
        text      == tool_call.outcome.value.text
        bulks     == {i \in DOMAIN tool_call.requests :
                        tool_call.requests[i].path = <<"audio-features">>}
    IN /\ tool_call.outcome.kind = "return"
       /\ bulks = {1}
       /\ tool_call.requests[1].ids = First(track_ids, 50)
       /\ Len(tool_call.requests) <= 1 + 2 * Len(processed)
       /\ (Decoded(bulk) /\ Contains(bulk.text, "audio_features"))
          => Len(tool_call.requests) = 1
       /\ (~(Decoded(bulk) /\ Contains(bulk.text, "audio_features"))
           /\ processed # << >>)
          => /\ text[1] = "json.dumps"
             /\ Len(text[2]) = Len(processed)
             /\ \A i \in DOMAIN processed :
                  /\ text[2][i].id = processed[i]
                  /\ Failed(features[i % 2])
                     => /\ text[2][i].features = dummy_features
                        /\ "note" \in DOMAIN text[2][i]

\* C28: compare_tracks given fewer than 2 or more than 5 ids makes no
\* request and returns at once. Given 2 to 5 ids, before the loop and after
\* each of its rounds the lists features and tracks_info are as long as the
\* number of ids processed, entry i of tracks_info carries the i-th id, and
\* entry i of features is None or the features answered for the i-th id,
\* whichever of the requests of a round failed.
C28_ListsStayAligned ==
  tool_call.tool = "compare_tracks" =>
    LET track_ids == tool_call.args[1]
    IN /\ (Len(track_ids) < 2 \/ Len(track_ids) > 5)
          => /\ tool_call.requests = << >>
             /\ tool_call.processed = 0
             /\ tool_call.outcome = Returned(WrongCount)
       /\ Len(tool_call.features) = tool_call.processed
       /\ Len(tool_call.tracks_info) = tool_call.processed
       /\ tool_call.processed <= Len(track_ids)
       /\ \A i \in 1..tool_call.processed :
            /\ tool_call.tracks_info[i].id = track_ids[i]
            /\ tool_call.features[i] # NoFeatures
               => tool_call.features[i][1] = track_ids[i]
       /\ \A k \in DOMAIN tool_call.requests :
            \E i \in 1..tool_call.processed :
              tool_call.requests[k][2] = track_ids[i]

\* three rounds are over: the track request of the first failed, the
\* feature request of the second failed, the third had its features
C28_Witness ==
  /\ tool_call.tool = "compare_tracks"
  /\ tool_call.processed = 3
  /\ tool_call.tracks_info[1].name = <<"Unknown Track">>
  /\ tool_call.features[1] = NoFeatures
  /\ tool_call.tracks_info[2].name # <<"Unknown Track">>
  /\ tool_call.features[2] = NoFeatures
  /\ tool_call.features[3] # NoFeatures
  /\ Len(tool_call.requests) = 5

\* C22: a failed refresh is not sticky. An invocation that starts when the
\* token request answered last has failed and the cache is not reusable
\* posts a token request of its own; when that request is answered with a
\* 200 the token is cached and is what ensure_token returns; and a failed
\* token request leaves the cached token and expiry as they were.
C22_FailedRefreshNotSticky ==
  [][\A t \in Tasks :
       /\ (Starts(t) /\ last_refresh = "failed" /\ ~(now < expires_at - 60))
          => /\ pc'[t] = "token_wait"
             /\ token_posts'[t] = 1
             /\ request'[t].url = "TOKEN_URL"
       /\ (TokenGranted(t) /\ seen[t].refresh = "failed")
          => /\ access_token' = IssuedToken(issued')
             /\ expires_at' = now + Get(last_stored'.json, "expires_in", 3600)
             /\ token'[t] = access_token'
             /\ op[t] = "ensure_token" => result'[t] = Returned(access_token')
       /\ (TokenAnswered(t) /\ ~TokenGranted(t))
          => /\ cache' = cache
             /\ result'[t].kind = "raise"]_vars

\* an invocation that started after a failed token request has fetched a
\* token of its own and returned it
C22_Witness ==
  \E t \in Tasks :
    /\ seen[t].refresh = "failed"
    /\ seen[t].fetched # NoMessage
    /\ pc[t] = "done"
    /\ result[t] = Returned(access_token)
    /\ access_token = seen[t].fetched.json.access_token

\* a stored token response whose lifetime is at most 60 seconds
ShortLived(stored) ==
  stored # NoMessage /\ Get(stored.json, "expires_in", 3600) <= 60

\* C23: a token stored with expires_in <= 60 is never served from the
\* cache: an invocation that starts when such a token is the one stored last
\* decides to refresh and posts a token request; the invocation that fetched
\* the short-lived token still gets it as the value of its ensure_token.
C23_ShortLivedTokenNeverReused ==
  \A t \in Tasks :
    /\ (pc[t] # "idle" /\ ShortLived(seen[t].stored))
       => /\ decision[t] = "refresh"
          /\ token_posts[t] = 1
          /\ seen[t].returned # seen[t].stored.json.access_token
    /\ ShortLived(seen[t].fetched)
       => /\ seen[t].returned = seen[t].fetched.json.access_token
          /\ token[t] = seen[t].returned
          /\ (pc[t] = "done" /\ op[t] = "ensure_token")
             => result[t] = Returned(seen[t].returned)

\* an invocation started at the very instant a 60-second token was stored,
\* and is asking for a new one
C23_Witness ==
  \E t \in Tasks :
    /\ ShortLived(seen[t].stored)
    /\ now = seen[t].stored.at
    /\ access_token = seen[t].stored.json.access_token
    /\ pc[t] = "token_wait"

\* C24: the bearer token of a resource request is the token this
\* invocation's ensure_token returned, whatever has been written to the
\* cache between that return and the sending of the request.
C24_BearerIsOwnToken ==
  \A t \in Tasks :
    pc[t] = "api_wait"
    => /\ seen[t].returned # None
       /\ request[t].headers.Authorization = <<"Bearer", seen[t].returned>>

\* the cache was overwritten after ensure_token returned and before the
\* request was sent; the request carries the token that was returned
C24_Witness ==
  \E t \in Tasks :
    /\ pc[t] = "api_wait"
    /\ seen[t].cache_at_send # seen[t].returned
    /\ request[t].headers.Authorization = <<"Bearer", seen[t].returned>>

\* C29: server.py authenticates before it serves. The server is running
\* only after the ensure_token of main() has stored a token; before that no
\* tool call is handled; and when that ensure_token fails, main() returns
\* (it does not raise) and nothing is ever served.
C29_AuthenticateBeforeServing ==
  /\ app_state \in {"init", "auth", "running", "exited"}
  /\ app_state = "running" => (issued >= 1 /\ access_token # "")
  /\ app_state # "running"
     => /\ \A t \in Tasks : t # 1 => pc[t] = "idle"
        /\ \A t \in Tasks : api_requests[t] = 0 /\ op[t] \in {None, "ensure_token"}
        /\ calls <= 1
  /\ app_state = "exited"
     => /\ issued = 0
        /\ access_token = ""
        /\ calls = 1
        /\ \A t \in Tasks : pc[t] = "idle"

\* with the client id missing the token request was refused and main() is
\* over
C29_Witness ==
  /\ app_state = "exited"
  /\ ~Truthy(SPOTIFY_CLIENT_ID)
  /\ calls = 1

\* C30: with every credential present, the same clock and the same token
\* responses, the three copies of ensure_token take the same decision at
\* every call, return the same token or fail together, and hold the same
\* cached token and expiry after every call.
C30_CopiesAgreeOnCache ==
  /\ copies # NoCopies =>
       \A v, w \in Variants : copies[v] = copies[w]
  /\ side.tool = "ensure_token" =>
       \A v, w \in Variants :
         /\ side.decision[v] = side.decision[w]
         /\ side.outcome[v].kind = side.outcome[w].kind
         /\ side.outcome[v].kind = "return"
            => side.outcome[v].value = side.outcome[w].value

\* with a token cached and no longer reusable, the token request got no
\* answer: the three copies failed, each in its own way, and kept the token
C30_Witness ==
  /\ side.tool = "ensure_token"
  /\ side.args[1] = RequestError
  /\ side.outcome["main"].kind = "raise"
  /\ side.outcome["main"].exc = "httpx.RequestError"
  /\ side.outcome["tools"].exc = "McpError"
  /\ copies["main"].access_token # ""
  /\ now = copies["main"].expires_at - 60

====
